---- MODULE Spec2Model ----
(***************************************************************************)
(* A model of GaussOpt (Gaussian beam analysis of quasi-optical systems): *)
(* optical components and their 2x2 beam transformation matrices          *)
(* (gaussopt/component.py), frequency sweeps (gaussopt/frequency.py),     *)
(* horns and the System that cascades components and computes the         *)
(* coupling between two horns (gaussopt/system.py).                       *)
(*                                                                         *)
(* Numbers.  Python floats are modelled by exact rationals <<n, d>> in    *)
(* lowest terms with d > 0, complex numbers by pairs <<re, im>> of        *)
(* rationals; floating point rounding is not modelled.  Lengths are in    *)
(* metres.  Frequencies are held in megahertz, so that every multiplier   *)
(* of set_f_units, from 10^-6 for 'Hz' to 10^6 for 'THz', is a ratio of   *)
(* integers of 32 bits.  The wavelength enters every formula of the       *)
(* horn, the waist and the coupling as wavelength / pi, so the wavelength *)
(* arrays hold wavelength / pi and the speed of light sc.c is pi in the   *)
(* units of the model: w[i] = 1 / f[i] stands for sc.c / f[i], and the    *)
(* factors pi of the source are absorbed in it.  No result depends on     *)
(* the value of sc.c.  A beam waist w only ever enters as w^2 (the source *)
(* takes a square root and squares it again), so the arrays of waists     *)
(* hold the squared waist.                                                *)
(***************************************************************************)
EXTENDS Integers, Sequences, FiniteSets, TLC

VARIABLES
    freqs,           \* the Frequency objects, by object identity
    horns,           \* the Horn objects, by object identity
    component_list,  \* the tuple of components handed to System
    system,          \* the System object
    ret,             \* the last call made and what it returned
    idx_center       \* the index a caller keeps of the centre of its sweep

vars == <<freqs, horns, component_list, system, ret, idx_center>>

\* None, for a value that is a number, an array or a matrix when present
None == <<>>
\* None, and a raised exception, for a value that is an object when present
NoObject == [cls |-> "NoneType"]
Raised(exc) == [cls |-> exc]

\* no call made, or its result taken
NoCall == [op |-> "none"]

\* the caller drops the result of the last call
Discard ==
    /\ ret # NoCall
    /\ ret' = NoCall
    /\ UNCHANGED <<idx_center, freqs, horns, component_list, system>>

-----------------------------------------------------------------------------
(* Exact arithmetic standing for Python's float and complex arithmetic.    *)

Abs(x) == IF x < 0 THEN -x ELSE x

RECURSIVE GCD(_, _)
GCD(a, b) == IF b = 0 THEN a ELSE GCD(b, a % b)

Rat(n, d) ==
    LET s == IF d < 0 THEN -1 ELSE 1
        g == GCD(Abs(n), Abs(d))
    IN  <<(s * n) \div g, (s * d) \div g>>

R(n) == <<n, 1>>
Zero == R(0)
One == R(1)

RAdd(x, y) ==
    LET g == GCD(x[2], y[2])
    IN  IF g = 0 THEN Rat(x[1] * y[2] + y[1] * x[2], x[2] * y[2])
        ELSE Rat(x[1] * (y[2] \div g) + y[1] * (x[2] \div g),
                 (x[2] \div g) * y[2])
RNeg(x) == <<-x[1], x[2]>>
RSub(x, y) == RAdd(x, RNeg(y))
RMul(x, y) ==
    LET g1 == GCD(Abs(x[1]), y[2])
        g2 == GCD(Abs(y[1]), x[2])
    IN  <<(x[1] \div g1) * (y[1] \div g2), (x[2] \div g2) * (y[2] \div g1)>>
RInv(x) == Rat(x[2], x[1])
RDiv(x, y) == RMul(x, RInv(y))
RSq(x) == RMul(x, x)
RLt(x, y) == RSub(x, y)[1] < 0
RLe(x, y) == RSub(x, y)[1] <= 0
RAbs(x) == <<Abs(x[1]), x[2]>>

\* complex numbers <<re, im>>
Cx(re, im) == <<re, im>>
Re(z) == z[1]
Im(z) == z[2]
CAdd(z, u) == <<RAdd(z[1], u[1]), RAdd(z[2], u[2])>>
CMul(z, u) == <<RSub(RMul(z[1], u[1]), RMul(z[2], u[2])),
                RAdd(RMul(z[1], u[2]), RMul(z[2], u[1]))>>
CScale(x, z) == <<RMul(x, z[1]), RMul(x, z[2])>>
CAddR(z, x) == <<RAdd(z[1], x), z[2]>>
CInv(z) ==
    LET m == RAdd(RSq(z[1]), RSq(z[2]))
    IN  <<RDiv(z[1], m), RNeg(RDiv(z[2], m))>>
CDiv(z, u) == CMul(z, CInv(u))

\* 2x2 matrices <<<<a, b>>, <<c, d>>>> of rationals
Mat(a, b, c, d) == <<<<a, b>>, <<c, d>>>>
Identity == Mat(One, Zero, Zero, One)

\* np.dot(x, y) of two 2x2 matrices: the matrix product x y
\* (mutant: the second term of each entry reads y[j][2] for y[2][j])
MatMulIndexSlip(x, y) ==
    <<<<RAdd(RMul(x[1][1], y[1][1]), RMul(x[1][2], y[1][2])),
        RAdd(RMul(x[1][1], y[1][2]), RMul(x[1][2], y[2][2]))>>,
      <<RAdd(RMul(x[2][1], y[1][1]), RMul(x[2][2], y[1][2])),
        RAdd(RMul(x[2][1], y[1][2]), RMul(x[2][2], y[2][2]))>>>>
MatMul(x, y) ==
    <<<<RAdd(RMul(x[1][1], y[1][1]), RMul(x[1][2], y[2][1])),
        RAdd(RMul(x[1][1], y[1][2]), RMul(x[1][2], y[2][2]))>>,
      <<RAdd(RMul(x[2][1], y[1][1]), RMul(x[2][2], y[2][1])),
        RAdd(RMul(x[2][1], y[1][2]), RMul(x[2][2], y[2][2]))>>>>

\* an array with its elements computed
Arr(s) == s \o <<>>

-----------------------------------------------------------------------------
(* gaussopt/util.py: the unit tables.                                      *)

\* a name the unit table does not hold: the KeyError that set_d_units and
\* set_f_units turn into a ValueError
KeyError == <<"KeyError">>

\* str.lower() on the unit names the model passes
Lower(units) ==
    CASE units = "KM" -> "km" [] units = "M" -> "m" [] units = "DM" -> "dm"
      [] units = "CM" -> "cm" [] units = "MM" -> "mm" [] units = "UM" -> "um"
      [] units = "Hz" -> "hz" [] units = "kHz" -> "khz"
      [] units = "MHz" -> "mhz" [] units = "GHz" -> "ghz"
      [] units = "THz" -> "thz" [] units = "Km" -> "km"
      [] units = "GHZ" -> "ghz"
      [] OTHER -> units

\* (mutant: a name the table does not hold gets the multiplier 1)
set_d_unitsDefault(units) ==
    LET u == Lower(units)
    IN  CASE u = "km" -> R(1000)
          [] u = "m"  -> R(1)
          [] u = "dm" -> Rat(1, 10)
          [] u = "cm" -> Rat(1, 100)
          [] u = "mm" -> Rat(1, 1000)
          [] u = "um" -> Rat(1, 1000000)
          [] OTHER -> R(1)
set_d_units(units) ==
    LET u == Lower(units)
    IN  CASE u = "km" -> R(1000)
          [] u = "m"  -> R(1)
          [] u = "dm" -> Rat(1, 10)
          [] u = "cm" -> Rat(1, 100)
          [] u = "mm" -> Rat(1, 1000)
          [] u = "um" -> Rat(1, 1000000)
          [] OTHER -> KeyError

set_f_units(units) ==
    LET u == Lower(units)
    IN  CASE u = "thz" -> R(1000000)
          [] u = "ghz" -> R(1000)
          [] u = "mhz" -> R(1)
          [] u = "khz" -> Rat(1, 1000)
          [] u = "hz"  -> Rat(1, 1000000)
          [] OTHER -> KeyError

-----------------------------------------------------------------------------
(* gaussopt/component.py: the components.  A component is a record; cls   *)
(* is its class, f its focal length where it has one (None otherwise),    *)
(* n its index of refraction (None otherwise).                            *)

\* Component.__init__(matrix=None, units=..., radius=...)
Component(matrix, units, radius) ==
    IF set_d_units(units) = KeyError THEN Raised("ValueError")
    ELSE [cls    |-> "Component",
          matrix |-> IF matrix = None THEN Identity ELSE matrix,
          units  |-> units,
          mult   |-> set_d_units(units),
          radius |-> IF radius = None THEN None
                     ELSE RMul(radius, set_d_units(units)),
          d      |-> Zero,
          type   |-> "comp",
          f      |-> None,
          n      |-> None]

\* self == other on two components: Component and its subclasses define no
\* __eq__, so == is that of object, the identity of the two instances;
\* self_id and other_id are the identities
ComponentEq(self_id, other_id) == self_id = other_id

\* Component.__mul__(self, next_comp)
\* (mutant: the operands of np.dot exchanged)
MulSwapped(self, next_comp) ==
    Component(MatMul(self.matrix, next_comp.matrix), "mm", None)
Mul(self, next_comp) ==
    Component(MatMul(next_comp.matrix, self.matrix), "mm", None)

Freespace(distance, units, radius) ==
    LET base == Component(None, units, radius)
    IN  IF base.cls = "ValueError" THEN base
        ELSE LET d == RMul(distance, base.mult)
             IN  [base EXCEPT !.cls = "Freespace", !.type = "prop", !.d = d,
                              !.matrix = Mat(One, d, Zero, One)]

\* (mutant: the index of refraction left out of the matrix)
DielectricNoIndex(thickness, n, units, radius) ==
    LET base == Component(None, units, radius)
    IN  IF base.cls = "ValueError" THEN base
        ELSE LET d == RMul(thickness, base.mult)
             IN  [base EXCEPT !.cls = "Dielectric", !.type = "prop", !.d = d,
                              !.n = n,
                              !.matrix = Mat(One, d, Zero, One)]
Dielectric(thickness, n, units, radius) ==
    LET base == Component(None, units, radius)
    IN  IF base.cls = "ValueError" THEN base
        ELSE LET d == RMul(thickness, base.mult)
             IN  [base EXCEPT !.cls = "Dielectric", !.type = "prop", !.d = d,
                              !.n = n,
                              !.matrix = Mat(One, RMul(d, n), Zero, One)]

\* the matrix [[1., 0.], [-1. / f, 1.]] of the four focusing classes
\* (mutant: the sign of the last entry flipped)
FocusMatrixSign(f) == Mat(One, Zero, RNeg(RInv(f)), RNeg(One))
FocusMatrix(f) == Mat(One, Zero, RNeg(RInv(f)), One)

Mirror(focal_length, units, radius) ==
    LET base == Component(None, units, radius)
    IN  IF base.cls = "ValueError" THEN base
        ELSE LET f == RMul(focal_length, base.mult)
             IN  [base EXCEPT !.cls = "Mirror", !.type = "obj", !.f = f,
                              !.matrix = FocusMatrix(f)]

ThinLens(focal_length, units, radius) ==
    LET base == Component(None, units, radius)
    IN  IF base.cls = "ValueError" THEN base
        ELSE LET f == RMul(focal_length, base.mult)
             IN  [base EXCEPT !.cls = "ThinLens", !.type = "obj", !.f = f,
                              !.matrix = FocusMatrix(f)]

SphericalMirror(radius_curv, units, radius) ==
    LET base == Component(None, units, radius)
    IN  IF base.cls = "ValueError" THEN base
        ELSE LET f == RDiv(RMul(radius_curv, base.mult), R(2))
             IN  [base EXCEPT !.cls = "SphericalMirror", !.type = "obj",
                              !.f = f, !.matrix = FocusMatrix(f)]

\* the focal length is d1 * d2 / (d1 + d2) of the arguments as given: the
\* unit multiplier is not applied
EllipsoidalMirror(d1, d2, units, radius) ==
    LET base == Component(None, units, radius)
    IN  IF base.cls = "ValueError" THEN base
        ELSE LET f == RDiv(RMul(d1, d2), RAdd(d1, d2))
             IN  [base EXCEPT !.cls = "EllipsoidalMirror", !.type = "obj",
                              !.f = f, !.matrix = FocusMatrix(f)]

Window(units, radius) ==
    LET base == Component(None, units, radius)
    IN  IF base.cls = "ValueError" THEN base
        ELSE [base EXCEPT !.cls = "Window", !.type = "obj"]

-----------------------------------------------------------------------------
(* gaussopt/frequency.py: the frequency sweep.  A count of points is a    *)
(* rational of denominator 1, so that None can stand for it.              *)

\* np.linspace(start, stop, npts): npts samples, both ends included
\* (mutant: the samples stop one step short of stop)
LinspaceOpen(start, stop, npts) ==
    [i \in 1..npts |->
        RAdd(start, RMul(RSub(stop, start), Rat(i - 1, npts)))]
Linspace(start, stop, npts) ==
    [i \in 1..npts |->
        IF npts = 1 THEN start
        ELSE RAdd(start, RMul(RSub(stop, start), Rat(i - 1, npts - 1)))]

\* the setter of Frequency.f, for an array or None: the wavelength and the
\* centre index follow f
\* (mutant: the centre index left as it was)
SetFKeepCentre(self, value) ==
    IF value = None
    THEN [self EXCEPT !.f = None, !.w = None]
    ELSE [self EXCEPT !.f = value,
                      !.w = [i \in 1..Len(value) |-> RInv(value[i])]]
SetF(self, value) ==
    IF value = None
    THEN [self EXCEPT !.f = None, !.w = None, !.idx_center = None]
    ELSE [self EXCEPT !.f = value,
                      !.w = [i \in 1..Len(value) |-> RInv(value[i])],
                      !.idx_center = R(Len(value) \div 2)]

\* Frequency.__init__; a is the record of its arguments
\* (mutant: with no mode fully given, a sweep of one point is made of the
\* first of start, center and stop that is given)
FrequencyGuess(a) ==
    IF set_f_units(a.units) = KeyError THEN Raised("ValueError")
    ELSE
    LET unit_mult == set_f_units(a.units)
        start == IF a.single # None THEN a.single
                 ELSE IF a.center # None /\ a.span # None
                      THEN RSub(a.center, RDiv(a.span, R(2)))
                      ELSE a.start
        stop  == IF a.single # None THEN a.single
                 ELSE IF a.center # None /\ a.span # None
                      THEN RAdd(a.center, RDiv(a.span, R(2)))
                      ELSE a.stop
        npts  == IF a.single # None THEN R(1) ELSE a.npts
        guess == IF a.start # None THEN a.start
                 ELSE IF a.center # None THEN a.center ELSE a.stop
        self  == [cls |-> "Frequency", units |-> a.units,
                  unit_mult |-> unit_mult,
                  f |-> None, w |-> None, idx_center |-> None]
    IN  IF start # None /\ stop # None /\ npts # None
        THEN SetF(self, [i \in 1..npts[1] |->
                            RMul(Linspace(start, stop, npts[1])[i], unit_mult)])
        ELSE IF a.freq # None
        THEN SetF(self, [i \in 1..Len(a.freq) |-> RMul(a.freq[i], unit_mult)])
        ELSE IF guess # None THEN SetF(self, <<RMul(guess, unit_mult)>>)
        ELSE Raised("ValueError")
\* (mutant: an array that is given is used before start, stop and count)
FrequencyArrayFirst(a) ==
    IF set_f_units(a.units) = KeyError THEN Raised("ValueError")
    ELSE
    LET unit_mult == set_f_units(a.units)
        start == IF a.single # None THEN a.single
                 ELSE IF a.center # None /\ a.span # None
                      THEN RSub(a.center, RDiv(a.span, R(2)))
                      ELSE a.start
        stop  == IF a.single # None THEN a.single
                 ELSE IF a.center # None /\ a.span # None
                      THEN RAdd(a.center, RDiv(a.span, R(2)))
                      ELSE a.stop
        npts  == IF a.single # None THEN R(1) ELSE a.npts
        self  == [cls |-> "Frequency", units |-> a.units,
                  unit_mult |-> unit_mult,
                  f |-> None, w |-> None, idx_center |-> None]
    IN  IF a.freq # None
        THEN SetF(self, [i \in 1..Len(a.freq) |-> RMul(a.freq[i], unit_mult)])
        ELSE IF start # None /\ stop # None /\ npts # None
        THEN SetF(self, [i \in 1..npts[1] |->
                            RMul(Linspace(start, stop, npts[1])[i], unit_mult)])
        ELSE Raised("ValueError")
Frequency(a) ==
    IF set_f_units(a.units) = KeyError THEN Raised("ValueError")
    ELSE
    LET unit_mult == set_f_units(a.units)
        start == IF a.single # None THEN a.single
                 ELSE IF a.center # None /\ a.span # None
                      THEN RSub(a.center, RDiv(a.span, R(2)))
                      ELSE a.start
        stop  == IF a.single # None THEN a.single
                 ELSE IF a.center # None /\ a.span # None
                      THEN RAdd(a.center, RDiv(a.span, R(2)))
                      ELSE a.stop
        npts  == IF a.single # None THEN R(1) ELSE a.npts
        self  == [cls |-> "Frequency", units |-> a.units,
                  unit_mult |-> unit_mult,
                  f |-> None, w |-> None, idx_center |-> None]
    IN  IF start # None /\ stop # None /\ npts # None
        THEN SetF(self, [i \in 1..npts[1] |->
                            RMul(Linspace(start, stop, npts[1])[i], unit_mult)])
        ELSE IF a.freq # None
        THEN SetF(self, [i \in 1..Len(a.freq) |-> RMul(a.freq[i], unit_mult)])
        ELSE Raised("ValueError")

\* Frequency.__eq__: np.array_equal of the two frequency arrays
\* (mutant: the lengths of the arrays compared, not their samples)
FrequencyEqLen(self, other) == Len(self.f) = Len(other.f)
FrequencyEq(self, other) == self.f = other.f

\* np.abs(x).argmin(), np argmax: the first index of the least (greatest)
\* value, as a 0-based index
\* (mutant: the last index of the least value)
ArgMinLast(x) ==
    (CHOOSE i \in 1..Len(x) :
        /\ \A j \in 1..Len(x) : RLe(x[i], x[j])
        /\ \A j \in (i + 1)..Len(x) : RLt(x[i], x[j])) - 1
ArgMin(x) ==
    (CHOOSE i \in 1..Len(x) :
        /\ \A j \in 1..Len(x) : RLe(x[i], x[j])
        /\ \A j \in 1..(i - 1) : RLt(x[i], x[j])) - 1
\* (mutant: the last index of the greatest value)
ArgMaxLast(x) ==
    (CHOOSE i \in 1..Len(x) :
        /\ \A j \in 1..Len(x) : RLe(x[j], x[i])
        /\ \A j \in (i + 1)..Len(x) : RLt(x[j], x[i])) - 1
ArgMax(x) ==
    (CHOOSE i \in 1..Len(x) :
        /\ \A j \in 1..Len(x) : RLe(x[j], x[i])
        /\ \A j \in 1..(i - 1) : RLt(x[j], x[i])) - 1

\* Frequency.idx(freq, units): the index of the sample closest to freq
FrequencyIdx(self, freq, units) ==
    IF set_f_units(units) = KeyError THEN Raised("ValueError")
    ELSE ArgMin([i \in 1..Len(self.f) |->
                    RAbs(RSub(RMul(freq, set_f_units(units)), self.f[i]))])

-----------------------------------------------------------------------------
(* gaussopt/system.py: the beam functions.                                 *)

\* transform_beam(sys_matrix, q_in), for one beam parameter
transform_beam(sys_matrix, q_in) ==
    CDiv(CAddR(CScale(sys_matrix[1][1], q_in), sys_matrix[1][2]),
         CAddR(CScale(sys_matrix[2][1], q_in), sys_matrix[2][2]))

\* transform_beam on an array of beam parameters
transform_beam_arr(sys_matrix, q_in) ==
    Arr([i \in 1..Len(q_in) |-> transform_beam(sys_matrix, q_in[i])])

\* _waist_from_q(q, wavelength)^2, for one sample: the wavelength argument
\* is wavelength / pi
_waist_from_q(q, wavelength) ==
    RDiv(wavelength, Im(CScale(R(-1), CInv(q))))

\* _radius_from_q(q), for one sample; 1 / 0. is <<1, 0>>, numpy's inf
_radius_from_q(q) == RInv(Re(CInv(q)))

\* _freespace_matrix(distance)
_freespace_matrix(distance) == Mat(One, distance, Zero, One)

\* _coupling(qin, horn_rx, wavelength), for sample i.  With w the waist of
\* the beam at the horn, (w / whorn + whorn / w)^2 is
\* w^2 / whorn^2 + 2 + whorn^2 / w^2.  The reference curvature 1 / 1e50 is
\* below the resolution of a double next to every sum it enters and is 0.
\* (mutant: the cross term 2 of the square left out)
_coupling1NoCrossTerm(qin, whorn, zoff, wavelength) ==
    LET qout == transform_beam(_freespace_matrix(zoff), qin)
        w    == RDiv(wavelength, Im(CScale(R(-1), CInv(qout))))
        r    == RInv(Re(CInv(qout)))
    IN  RDiv(R(4),
             RAdd(RAdd(RDiv(w, whorn), RDiv(whorn, w)),
                  RMul(RMul(RDiv(RMul(whorn, w), RSq(wavelength)),
                            RSub(RInv(r), Zero)),
                       RSub(RInv(r), Zero))))
_coupling1(qin, whorn, zoff, wavelength) ==
    LET qout == transform_beam(_freespace_matrix(zoff), qin)
        w    == RDiv(wavelength, Im(CScale(R(-1), CInv(qout))))
        r    == RInv(Re(CInv(qout)))
    IN  RDiv(R(4),
             RAdd(RAdd(RAdd(RDiv(w, whorn), R(2)), RDiv(whorn, w)),
                  RMul(RMul(RDiv(RMul(whorn, w), RSq(wavelength)),
                            RSub(RInv(r), Zero)),
                       RSub(RInv(r), Zero))))

_coupling(qin, horn_rx, wavelength) ==
    Arr([i \in 1..Len(wavelength) |->
            _coupling1(qin[i], horn_rx.w[i], horn_rx.z[i], wavelength[i])])

-----------------------------------------------------------------------------
(* gaussopt/component.py: the horn.                                        *)

\* _q_from_waist(waist, wlen) = 1j * pi * waist^2 / wlen
_q_from_waist(waist2, wlen) == Cx(Zero, RDiv(waist2, wlen))

\* _horn(slen, arad, hf, wlen) for one wavelength: <<qap, w^2, zoff>>
_horn1(slen, arad, hf, wlen) ==
    LET ha2  == RSq(RMul(hf, arad))
        w2   == RDiv(RSq(RMul(hf, arad)),
                     RAdd(One, RSq(RDiv(ha2, RMul(wlen, slen)))))
        zoff == RDiv(slen, RAdd(One, RSq(RDiv(RMul(wlen, slen), ha2))))
        q_waist == _q_from_waist(w2, wlen)
        waist_to_ap == Freespace(zoff, "m", None).matrix
    IN  <<transform_beam(waist_to_ap, q_waist), w2, zoff>>

\* Horn.__init__(freq, slen, arad, hf, units); freq is the identity of a
\* Frequency object and sweep that object
Horn(freq, sweep, slen, arad, hf, units) ==
    IF set_d_units(units) = KeyError THEN Raised("ValueError")
    ELSE
    LET mult == set_d_units(units)
        h == Arr([i \in 1..Len(sweep.w) |->
                 _horn1(RMul(slen, mult), RMul(arad, mult), hf, sweep.w[i])])
    IN  [cls |-> "Horn", type |-> "horn", units |-> units, mult |-> mult,
         slen |-> RMul(slen, mult), arad |-> RMul(arad, mult), hf |-> hf,
         freq |-> freq,
         q |-> [i \in 1..Len(sweep.w) |-> h[i][1]],
         w |-> [i \in 1..Len(sweep.w) |-> h[i][2]],
         z |-> [i \in 1..Len(sweep.w) |-> h[i][3]]]

\* Horn.z_offset(units): the distance from the aperture to the beam waist,
\* in units
\* (mutant: the offset left in metres)
z_offsetInMetres(self, units) ==
    IF set_d_units(units) = KeyError THEN Raised("ValueError")
    ELSE [i \in 1..Len(self.z) |-> self.z[i]]
z_offset(self, units) ==
    IF set_d_units(units) = KeyError THEN Raised("ValueError")
    ELSE [i \in 1..Len(self.z) |-> RDiv(self.z[i], set_d_units(units))]

-----------------------------------------------------------------------------
(* gaussopt/system.py: the System.                                         *)

\* the loop of System.__init__ over component_list[0 .. k-1]: np.dot on
\* two components is comp * self._system, that is comp.__mul__(self._system)
RECURSIVE SystemFold(_, _)
SystemFold(list, k) ==
    IF k = 1 THEN list[1] ELSE Mul(list[k], SystemFold(list, k - 1))

\* the matrix sys of System.waist after the first k components:
\* sys = np.dot(comp.matrix, sys), from the identity
RECURSIVE WaistWalkMatrix(_, _)
WaistWalkMatrix(list, k) ==
    IF k = 0 THEN Identity
    ELSE MatMul(list[k].matrix, WaistWalkMatrix(list, k - 1))

\* Horn.copy: a deep copy, the Frequency object included; new_freq is the
\* identity of the copy of the Frequency object
\* (mutant: a shallow copy, which refers to the Frequency object of the
\* original)
HornCopyShallow(self, new_freq) == self
HornCopy(self, new_freq) == [self EXCEPT !.freq = new_freq]

\* System.__init__ once the receiving horn is known, on the heap F of
\* Frequency objects
SystemInit(tx_id, horn_tx, rx_id, horn_rx, F, list) ==
    IF ~FrequencyEq(F[horn_rx.freq], F[horn_tx.freq])
    THEN Raised("AssertionError")
    ELSE IF Len(list) = 0 THEN Raised("IndexError")
    ELSE LET sys == SystemFold(list, Len(list))
         IN  [cls |-> "System",
              freq |-> horn_rx.freq,
              horn_tx |-> tx_id,
              horn_rx |-> rx_id,
              comp_list |-> list,
              matrix |-> sys.matrix,
              qout |-> transform_beam_arr(sys.matrix, horn_tx.q),
              wout |-> [i \in 1..Len(horn_tx.q) |->
                           _waist_from_q(horn_tx.q[i],
                                         F[horn_rx.freq].w[i])],
              rout |-> [i \in 1..Len(horn_tx.q) |->
                           _radius_from_q(horn_tx.q[i])]]

\* System.coupling()
SystemCoupling(self) ==
    _coupling(self.qout, horns[self.horn_rx], freqs[self.freq].w)

\* np.arange(stop, step=1e-3): 0, 0.001, 0.002, ... below stop, the
\* ceiling of stop / 0.001 of them
ARange(stop) ==
    LET t == RMul(stop, R(1000))
        n == IF t[1] <= 0 THEN 0 ELSE (t[1] + t[2] - 1) \div t[2]
    IN  [k \in 1..n |-> Rat(k - 1, 1000)]

\* the sample of System.waist at the distance d into a propagation, after
\* the components of matrix sys: w[idx] of the beam through
\* np.dot(_freespace_matrix(d), sys); every step is elementwise, so the
\* sample at idx is computed from qin[idx] and wlen[idx] alone
WaistSample(d, sys, qin, wlen) ==
    _waist_from_q(transform_beam(MatMul(_freespace_matrix(d), sys), qin), wlen)

\* the loop of System.waist over the first k components, for the 0-based
\* index idx into the sweep: the lists distance and waist and the running
\* length d_last_comp
\* (mutant: a sample is recorded at its distance into its own component,
\* without the length of the components before it)
RECURSIVE WaistWalkNoCarry(_, _, _)
WaistWalkNoCarry(self, idx, k) ==
    IF k = 0
    THEN [distance |-> <<>>, waist |-> <<>>, d_last_comp |-> Zero]
    ELSE LET prev  == WaistWalkNoCarry(self, idx, k - 1)
             comp  == self.comp_list[k]
             sys   == WaistWalkMatrix(self.comp_list, k - 1)
             d_tmp == IF comp.type = "prop" THEN ARange(comp.d) ELSE <<>>
         IN  [distance |-> prev.distance \o
                  [j \in 1..Len(d_tmp) |-> d_tmp[j]],
              waist |-> prev.waist \o
                  [j \in 1..Len(d_tmp) |->
                      WaistSample(d_tmp[j], sys,
                                  horns[self.horn_tx].q[idx + 1],
                                  freqs[self.freq].w[idx + 1])],
              d_last_comp |-> RAdd(prev.d_last_comp, comp.d)]
RECURSIVE WaistWalk(_, _, _)
WaistWalk(self, idx, k) ==
    IF k = 0
    THEN [distance |-> <<>>, waist |-> <<>>, d_last_comp |-> Zero]
    ELSE LET prev  == WaistWalk(self, idx, k - 1)
             comp  == self.comp_list[k]
             sys   == WaistWalkMatrix(self.comp_list, k - 1)
             d_tmp == IF comp.type = "prop" THEN ARange(comp.d) ELSE <<>>
         IN  [distance |-> prev.distance \o
                  [j \in 1..Len(d_tmp) |->
                      RAdd(d_tmp[j], prev.d_last_comp)],
              waist |-> prev.waist \o
                  [j \in 1..Len(d_tmp) |->
                      WaistSample(d_tmp[j], sys,
                                  horns[self.horn_tx].q[idx + 1],
                                  freqs[self.freq].w[idx + 1])],
              d_last_comp |-> RAdd(prev.d_last_comp, comp.d)]

\* System.waist(freq): freq is None or a frequency in GHz, the default
\* units of Frequency.idx
SystemWaist(self, freq) ==
    LET idx == IF freq = None THEN freqs[self.freq].idx_center[1]
               ELSE FrequencyIdx(freqs[self.freq], freq, "GHz")
        walk == WaistWalk(self, idx, Len(self.comp_list))
    IN  [distance |-> walk.distance, waist |-> walk.waist]

-----------------------------------------------------------------------------
(* The inputs of a system.                                                 *)

MaxPts == 2
MaxElems == 2

\* the Frequency and Horn objects the caller holds, and the copies System
\* makes of a horn and of its sweep
FreqIds == {"freq1", "freq2", "copy"}
HornIds == {"horn_tx", "horn_rx", "copy"}

NoArgs == [start |-> None, stop |-> None, npts |-> None, freq |-> None,
           units |-> "MHz", center |-> None, span |-> None, single |-> None]

\* the sweeps of 1 .. MaxPts samples over the frequencies 1 and 2: the
\* constant ones as start = stop with a count, the others as an explicit
\* array, in any order; and the call of test_frequency that gives a start
\* and a center only
FreqVals == {1, 2}
FreqArrays ==
    {s \in UNION {[1..n -> FreqVals] : n \in 2..MaxPts} :
        \E i \in 1..Len(s) : s[i] # s[1]}
FreqArgs ==
    {[NoArgs EXCEPT !.start = R(v), !.stop = R(v), !.npts = R(n)] :
        v \in FreqVals, n \in 1..MaxPts}
    \cup {[NoArgs EXCEPT !.freq = [i \in 1..Len(s) |-> R(s[i])]] :
            s \in FreqArrays}
    \cup {[NoArgs EXCEPT !.start = R(2), !.center = R(1)]}

HornArgs ==
    {[slen |-> R(s), arad |-> R(1), hf |-> R(1), units |-> "m"] : s \in 1..2}
    \cup {[slen |-> R(1), arad |-> R(1), hf |-> R(1), units |-> "inch"]}

\* the elements a component list is made of
SystemElements ==
    {Freespace(R(1), "m", None), Mirror(R(5), "dm", None),
     Dielectric(R(1), R(2), "m", None)}

-----------------------------------------------------------------------------
(* The system: the caller builds sweeps, horns and a component list,      *)
(* builds the System and calls its methods.                               *)

NewFrequency(id, a) ==
    /\ ret = NoCall
    /\ system = NoObject
    /\ component_list = <<>>
    /\ id \in {"freq1", "freq2"}
    /\ freqs[id] = NoObject
    /\ id = "freq2" => horns["horn_tx"] # NoObject /\ horns["horn_rx"] = NoObject
    /\ IF Frequency(a).cls = "Frequency"
       THEN /\ freqs' = [freqs EXCEPT ![id] = Frequency(a)]
            /\ ret' = ret
       ELSE /\ freqs' = freqs
            /\ ret' = [op |-> "Frequency", out |-> Frequency(a)]
    /\ UNCHANGED <<idx_center, horns, component_list, system>>

NewHorn(id, freq, a) ==
    /\ ret = NoCall
    /\ system = NoObject
    /\ component_list = <<>>
    /\ id \in {"horn_tx", "horn_rx"}
    /\ horns[id] = NoObject
    /\ id = "horn_rx" => horns["horn_tx"] # NoObject
    /\ freq \in {"freq1", "freq2"}
    /\ freqs[freq] # NoObject
    /\ freq = "freq1" => freqs["freq2"] = NoObject
    /\ LET h == Horn(freq, freqs[freq], a.slen, a.arad, a.hf, a.units)
       IN  IF h.cls = "Horn"
           THEN /\ horns' = [horns EXCEPT ![id] = h]
                /\ ret' = ret
           ELSE /\ horns' = horns
                /\ ret' = [op |-> "Horn", out |-> h]
    /\ UNCHANGED <<idx_center, freqs, component_list, system>>

\* the caller extends the tuple of components
AddElement(c) ==
    /\ ret = NoCall
    /\ system = NoObject
    /\ horns["horn_tx"] # NoObject
    /\ freqs["freq2"] # NoObject => horns["horn_rx"] # NoObject
    /\ Len(component_list) < MaxElems
    /\ component_list' = Append(component_list, c)
    /\ UNCHANGED <<idx_center, freqs, horns, system, ret>>

\* System(horn_tx, component_list, horn_rx)
NewSystem ==
    /\ ret = NoCall
    /\ system = NoObject
    /\ horns["horn_tx"] # NoObject
    /\ horns["horn_rx"] # NoObject
    /\ system' = SystemInit("horn_tx", horns["horn_tx"],
                            "horn_rx", horns["horn_rx"],
                            freqs, component_list)
    /\ UNCHANGED <<idx_center, freqs, horns, component_list, ret>>

\* System(horn_tx, component_list): the receiving horn is a copy
NewSystemDefault ==
    /\ ret = NoCall
    /\ system = NoObject
    /\ horns["horn_tx"] # NoObject
    /\ horns["horn_rx"] = NoObject
    /\ freqs["freq2"] = NoObject
    /\ LET tx == horns["horn_tx"]
           rx == HornCopy(tx, "copy")
           F  == [freqs EXCEPT !["copy"] = freqs[tx.freq]]
       IN  /\ freqs' = F
           /\ horns' = [horns EXCEPT !["copy"] = rx]
           /\ system' = SystemInit("horn_tx", tx, "copy", rx, F,
                                   component_list)
    /\ UNCHANGED <<idx_center, component_list, ret>>

\* system.coupling()
\* (mutant: the beam at the receiving horn is kept in self.qout)
CouplingKeepsBeam ==
    /\ ret = NoCall
    /\ system.cls = "System"
    /\ ret' = [op |-> "coupling", out |-> SystemCoupling(system)]
    /\ system' = [system EXCEPT !.qout =
                     [i \in 1..Len(system.qout) |->
                         transform_beam(
                             _freespace_matrix(horns[system.horn_rx].z[i]),
                             system.qout[i])]]
    /\ UNCHANGED <<idx_center, freqs, horns, component_list>>
Coupling ==
    /\ ret = NoCall
    /\ system.cls = "System"
    /\ ret' = [op |-> "coupling", out |-> SystemCoupling(system)]
    /\ UNCHANGED <<idx_center, freqs, horns, component_list, system>>

\* best_coupling(): np max of an empty array raises ValueError
BestCoupling ==
    /\ ret = NoCall
    /\ system.cls = "System"
    /\ LET c == SystemCoupling(system)
       IN  ret' = IF Len(c) = 0
                  THEN [op |-> "best_coupling", out |-> Raised("ValueError")]
                  ELSE [op |-> "best_coupling", out |-> c[ArgMax(c) + 1]]
    /\ UNCHANGED <<idx_center, freqs, horns, component_list, system>>

BestCouplingFrequency ==
    /\ ret = NoCall
    /\ system.cls = "System"
    /\ LET c == SystemCoupling(system)
       IN  ret' = IF Len(c) = 0
                  THEN [op |-> "best_coupling_frequency",
                        out |-> Raised("ValueError")]
                  ELSE [op |-> "best_coupling_frequency",
                        idx_best |-> ArgMax(c),
                        out |-> freqs[system.freq].f[ArgMax(c) + 1]]
    /\ UNCHANGED <<idx_center, freqs, horns, component_list, system>>

Init ==
    /\ freqs = [id \in FreqIds |-> NoObject]
    /\ horns = [id \in HornIds |-> NoObject]
    /\ component_list = <<>>
    /\ system = NoObject
    /\ ret = NoCall
    /\ idx_center = None

Next ==
    \/ \E id \in FreqIds, a \in FreqArgs : NewFrequency(id, a)
    \/ \E id \in HornIds, freq \in FreqIds, a \in HornArgs :
          NewHorn(id, freq, a)
    \/ \E c \in SystemElements : AddElement(c)
    \/ NewSystem
    \/ NewSystemDefault
    \/ Coupling
    \/ BestCoupling
    \/ BestCouplingFrequency
    \/ Discard

Spec == Init /\ [][Next]_vars

-----------------------------------------------------------------------------
(* The inputs of the component algebra.                                    *)

MaxVal == 2

\* lengths, focal lengths and radii of curvature, in the unit given
Vals == {R(v) : v \in 1..MaxVal}
\* indices of refraction
Indices == {R(1), R(2)}
\* unit names: the six of set_d_units, one in capitals, one not recognized
DUnits == {"um", "mm", "cm", "dm", "m", "km", "MM", "inch"}
\* aperture radii
Radii == {None, One}

\* the units of an element built twice; 'um' is not among them: the
\* product of two lengths of 10^-6 m needs an integer of more than 32 bits
TwiceUnits == {"mm", "cm", "dm", "m", "km", "MM"}

\* the classes of elements
Classes == {"Freespace", "Dielectric", "Mirror", "ThinLens",
            "SphericalMirror", "EllipsoidalMirror", "Window"}

\* cls(...): the call of the constructor of a class, on the lengths v and
\* w (w for the second of EllipsoidalMirror), the index n, the units u and
\* the aperture radius r
Construct(cls, v, w, n, u, r) ==
    CASE cls = "Freespace"         -> Freespace(v, u, r)
      [] cls = "Dielectric"        -> Dielectric(v, n, u, r)
      [] cls = "Mirror"            -> Mirror(v, u, r)
      [] cls = "ThinLens"          -> ThinLens(v, u, r)
      [] cls = "SphericalMirror"   -> SphericalMirror(v, u, r)
      [] cls = "EllipsoidalMirror" -> EllipsoidalMirror(v, w, u, r)
      [] cls = "Window"            -> Window(u, r)

\* every element the constructors build over the units U, without aperture
ElementsIn(U) ==
    {Freespace(v, u, None) : v \in Vals, u \in U}
    \cup {Dielectric(v, n, u, None) : v \in Vals, n \in Indices, u \in U}
    \cup {Mirror(v, u, None) : v \in Vals, u \in U}
    \cup {ThinLens(v, u, None) : v \in Vals, u \in U}
    \cup {SphericalMirror(v, u, None) : v \in Vals, u \in U}
    \cup {EllipsoidalMirror(v, w, u, None) : v \in Vals, w \in Vals, u \in U}
    \cup {Window(u, None) : u \in U}

\* the operands of a cascade of two, and of three
CascadeOperands == ElementsIn({"m", "mm"})
GroupOperands == ElementsIn({"m"})

-----------------------------------------------------------------------------
(* The component algebra: one action per constructor, the cascade A * B,  *)
(* the two groupings of a cascade of three, and the four focusing         *)
(* elements of one focal length (test_simple_focusing_elements).          *)

\* a call is made once the caller has taken the result of the one before
NewFreespace(distance, units, radius) ==
    /\ ret = NoCall
    /\ ret' = [op |-> "new", out |-> Freespace(distance, units, radius)]
    /\ UNCHANGED <<idx_center, freqs, horns, component_list, system>>

NewDielectric(thickness, n, units, radius) ==
    /\ ret = NoCall
    /\ ret' = [op |-> "new", out |-> Dielectric(thickness, n, units, radius)]
    /\ UNCHANGED <<idx_center, freqs, horns, component_list, system>>

NewMirror(focal_length, units, radius) ==
    /\ ret = NoCall
    /\ ret' = [op |-> "new", out |-> Mirror(focal_length, units, radius)]
    /\ UNCHANGED <<idx_center, freqs, horns, component_list, system>>

NewThinLens(focal_length, units, radius) ==
    /\ ret = NoCall
    /\ ret' = [op |-> "new", out |-> ThinLens(focal_length, units, radius)]
    /\ UNCHANGED <<idx_center, freqs, horns, component_list, system>>

NewSphericalMirror(radius_curv, units, radius) ==
    /\ ret = NoCall
    /\ ret' = [op |-> "new",
               out |-> SphericalMirror(radius_curv, units, radius)]
    /\ UNCHANGED <<idx_center, freqs, horns, component_list, system>>

NewEllipsoidalMirror(d1, d2, units, radius) ==
    /\ ret = NoCall
    /\ ret' = [op |-> "new", out |-> EllipsoidalMirror(d1, d2, units, radius)]
    /\ UNCHANGED <<idx_center, freqs, horns, component_list, system>>

NewWindow(units, radius) ==
    /\ ret = NoCall
    /\ ret' = [op |-> "new", out |-> Window(units, radius)]
    /\ UNCHANGED <<idx_center, freqs, horns, component_list, system>>

\* a * b
Cascade(a, b) ==
    /\ ret = NoCall
    /\ ret' = [op |-> "mul", self |-> a, next_comp |-> b, out |-> Mul(a, b)]
    /\ UNCHANGED <<idx_center, freqs, horns, component_list, system>>

\* (a * b) * c and a * (b * c)
CascadeGrouped(a, b, c) ==
    /\ ret = NoCall
    /\ ret' = [op |-> "group", a |-> a, b |-> b, c |-> c,
               left |-> Mul(Mul(a, b), c), right |-> Mul(a, Mul(b, c))]
    /\ UNCHANGED <<idx_center, freqs, horns, component_list, system>>

\* comp1 .. comp4 of test_simple_focusing_elements, for focal length f
FocusingElements(f, units) ==
    /\ ret = NoCall
    /\ set_d_units(units) # KeyError
    /\ ret' = [op |-> "focusing", f |-> f, units |-> units,
               comp1 |-> Mirror(f, units, None),
               comp2 |-> ThinLens(f, units, None),
               comp3 |-> SphericalMirror(RMul(R(2), f), units, None),
               comp4 |-> EllipsoidalMirror(RMul(f, R(2)), RMul(f, R(2)),
                                           units, None)]
    /\ UNCHANGED <<idx_center, freqs, horns, component_list, system>>

\* diel and air of test_dielectric, for a thickness, an index and a unit
DielectricAndAir(distance, n, units) ==
    /\ ret = NoCall
    /\ set_d_units(units) # KeyError
    /\ ret' = [op |-> "dielectric", distance |-> distance, n |-> n,
               units |-> units,
               diel |-> Dielectric(distance, n, units, None),
               air |-> Freespace(distance, units, None)]
    /\ UNCHANGED <<idx_center, freqs, horns, component_list, system>>

\* x == y on the instances x_id and y_id of test_component and
\* test_simple_focusing_elements: one instance has one value
CompareComponents(x_id, x, y_id, y) ==
    /\ ret = NoCall
    /\ x_id = y_id => x = y
    /\ ret' = [op |-> "eq", self |-> x, other |-> y,
               self_id |-> x_id, other_id |-> y_id,
               out |-> ComponentEq(x_id, y_id)]
    /\ UNCHANGED <<idx_center, freqs, horns, component_list, system>>

\* one element built twice, as in freespace1 and freespace2 of
\* test_component: on lengths in the unit u, and on the same lengths
\* converted to metres with units='m'
InUnitsAndInMetres(cls, v, w, n, u, r) ==
    /\ ret = NoCall
    /\ set_d_units(u) # KeyError
    /\ LET mult == set_d_units(u)
           rm   == IF r = None THEN None ELSE RMul(r, mult)
       IN  ret' = [op |-> "units", units |-> u,
                   given  |-> Construct(cls, v, w, n, u, r),
                   metres |-> Construct(cls, RMul(v, mult), RMul(w, mult),
                                        n, "m", rm)]
    /\ UNCHANGED <<idx_center, freqs, horns, component_list, system>>

InitAlg ==
    /\ freqs = [id \in FreqIds |-> NoObject]
    /\ horns = [id \in HornIds |-> NoObject]
    /\ component_list = <<>>
    /\ system = NoObject
    /\ ret = NoCall
    /\ idx_center = None

NextAlg ==
    \/ \E v \in Vals, u \in DUnits, r \in Radii : NewFreespace(v, u, r)
    \/ \E v \in Vals, n \in Indices, u \in DUnits, r \in Radii :
          NewDielectric(v, n, u, r)
    \/ \E v \in Vals, u \in DUnits, r \in Radii : NewMirror(v, u, r)
    \/ \E v \in Vals, u \in DUnits, r \in Radii : NewThinLens(v, u, r)
    \/ \E v \in Vals, u \in DUnits, r \in Radii : NewSphericalMirror(v, u, r)
    \/ \E v \in Vals, w \in Vals, u \in DUnits, r \in Radii :
          NewEllipsoidalMirror(v, w, u, r)
    \/ \E u \in DUnits, r \in Radii : NewWindow(u, r)
    \/ \E a \in CascadeOperands, b \in CascadeOperands : Cascade(a, b)
    \/ \E a \in GroupOperands, b \in GroupOperands, c \in GroupOperands :
          CascadeGrouped(a, b, c)
    \/ \E f \in Vals, u \in DUnits : FocusingElements(f, u)
    \/ \E v \in Vals, n \in Indices, u \in DUnits : DielectricAndAir(v, n, u)
    \/ \E cls \in Classes, v \in Vals, w \in Vals, n \in Indices,
             u \in TwiceUnits, r \in Radii :
          InUnitsAndInMetres(cls, v, w, n, u, r)
    \/ \E x \in CascadeOperands, y \in CascadeOperands, j \in 1..2 :
          CompareComponents(1, x, j, y)
    \/ Discard

SpecAlg == InitAlg /\ [][NextAlg]_vars

-----------------------------------------------------------------------------
(* The Gaussian telescope of test_gaussian_telescope: a sweep given by its *)
(* centre, its span and its number of points, a horn and its copy, two     *)
(* mirrors of one focal length two focal lengths apart, each one focal     *)
(* length from the waist of the horn next to it at the centre frequency.   *)
(* The test's lengths are in mm and cm and its frequencies in GHz; here    *)
(* they are in dm and m and in the unit of frequency of this model.        *)

MaxTelPts == 3
TelFocals == {2, 3}

\* the sweeps start, start + 1, ..., of 1 .. MaxTelPts samples, given as
\* centre, span and number of points
TelSweeps ==
    {[NoArgs EXCEPT !.center = Rat(2 * s + n - 1, 2), !.span = R(n - 1),
                    !.npts = R(n)] : s \in 1..2, n \in 1..MaxTelPts}

TelHornArgs ==
    {[slen |-> R(s), arad |-> R(1), hf |-> R(1), units |-> "m"] : s \in 1..2}

\* freq = Frequency(center=.., span=.., npts=..); idx_center = freq.idx(..)
TelescopeSweep(a) ==
    /\ ret = NoCall
    /\ freqs["freq1"] = NoObject
    /\ freqs' = [freqs EXCEPT !["freq1"] = Frequency(a)]
    /\ idx_center' = R(FrequencyIdx(Frequency(a), a.center, a.units))
    /\ UNCHANGED <<horns, component_list, system, ret>>

\* horn_rx = horn_tx.copy()
CopyHorn ==
    /\ ret = NoCall
    /\ horns["horn_tx"] # NoObject
    /\ horns["horn_rx"] = NoObject
    /\ freqs' = [freqs EXCEPT !["copy"] = freqs[horns["horn_tx"].freq]]
    /\ horns' = [horns EXCEPT !["horn_rx"] = HornCopy(horns["horn_tx"], "copy")]
    /\ UNCHANGED <<component_list, system, ret, idx_center>>

\* air, mirror, z_offset, air_red and the component list of the test, for
\* the focal length f in metres
TelescopeElements(f) ==
    /\ ret = NoCall
    /\ system = NoObject
    /\ component_list = <<>>
    /\ horns["horn_rx"] # NoObject
    /\ LET air      == Freespace(R(10 * f), "dm", None)
           mirror   == Mirror(R(f), "m", None)
           z_off    == z_offset(horns["horn_tx"], "dm")[idx_center[1] + 1]
           air_red  == Freespace(RSub(R(10 * f), z_off), "dm", None)
       IN  component_list' = <<air_red, mirror, air, air, mirror, air_red>>
    /\ UNCHANGED <<freqs, horns, system, ret, idx_center>>

InitTel == Init

NextTel ==
    \/ \E a \in TelSweeps : TelescopeSweep(a)
    \/ \E a \in TelHornArgs : NewHorn("horn_tx", "freq1", a)
    \/ CopyHorn
    \/ \E f \in TelFocals : TelescopeElements(f)
    \/ NewSystem
    \/ Coupling
    \/ BestCoupling
    \/ BestCouplingFrequency
    \/ Discard

SpecTel == InitTel /\ [][NextTel]_vars

-----------------------------------------------------------------------------
(* The units: the two unit functions called on a name, and the            *)
(* constructors of elements, of a sweep and of a horn called with it.     *)

\* names of units of length and of frequency in several cases, and names
\* neither table holds
UnitNames == {"um", "mm", "cm", "dm", "m", "km", "MM", "Km", "M",
              "Hz", "hz", "kHz", "MHz", "GHz", "THz", "GHZ", "inch", ""}

\* a sweep of one point in each unit; the sweeps a horn is built on, for
\* which the squares of the horn's lengths fit the integers of the model;
\* and the horns, likewise
UnitFreqArgs == {[NoArgs EXCEPT !.single = R(1), !.units = u] : u \in UnitNames}
UnitHornFreqArgs ==
    {[NoArgs EXCEPT !.single = R(1), !.units = u] : u \in {"MHz", "GHz", "m"}}
UnitHornArgs ==
    {[slen |-> R(1), arad |-> R(1), hf |-> R(1), units |-> u] :
        u \in {"m", "M", "dm", "GHz", "inch", ""}}

\* set_d_units(units): the multiplier, or the ValueError raised
SetDUnits(units) ==
    /\ ret = NoCall
    /\ freqs["freq1"] = NoObject
    /\ ret' = [op |-> "set_d_units", units |-> units,
               raised |-> set_d_units(units) = KeyError,
               out |-> IF set_d_units(units) = KeyError THEN None
                       ELSE set_d_units(units)]
    /\ UNCHANGED <<idx_center, freqs, horns, component_list, system>>

\* set_f_units(units): the multiplier, or the ValueError raised
SetFUnits(units) ==
    /\ ret = NoCall
    /\ freqs["freq1"] = NoObject
    /\ ret' = [op |-> "set_f_units", units |-> units,
               raised |-> set_f_units(units) = KeyError,
               out |-> IF set_f_units(units) = KeyError THEN None
                       ELSE set_f_units(units)]
    /\ UNCHANGED <<idx_center, freqs, horns, component_list, system>>

\* cls(..., units=units, radius=radius): the element, or the ValueError
\* raised
NewElement(cls, v, n, units, radius) ==
    /\ ret = NoCall
    /\ freqs["freq1"] = NoObject
    /\ ret' = [op |-> "element", units |-> units,
               out |-> Construct(cls, v, v, n, units, radius)]
    /\ UNCHANGED <<idx_center, freqs, horns, component_list, system>>

InitUnits == Init

NextUnits ==
    \/ \E u \in UnitNames : SetDUnits(u)
    \/ \E u \in UnitNames : SetFUnits(u)
    \/ \E cls \in Classes, v \in Vals, n \in Indices, u \in UnitNames,
             r \in Radii : NewElement(cls, v, n, u, r)
    \/ \E a \in UnitHornFreqArgs : NewFrequency("freq1", a)
    \/ \E a \in UnitFreqArgs : NewFrequency("freq2", a)
    \/ \E a \in UnitHornArgs : NewHorn("horn_tx", "freq1", a)
    \/ Discard

SpecUnits == InitUnits /\ [][NextUnits]_vars

-----------------------------------------------------------------------------
(* The sweep: the ways to build a Frequency (test_frequency), the         *)
(* comparison of two sweeps, the assignment of the frequency array, idx,  *)
(* and a horn built on a sweep that is assigned afterwards.               *)

MaxFreqPts == 3

Opt(v) == {None, v}

\* every choice of the arguments of Frequency given or left out; each
\* mode gives a sweep of its own: 1, 3 by start, stop and count, 2, 4 by
\* center, span and count, 2 by single, and 1, 2, 3 by an array
ModeArgs ==
    {[start |-> a, stop |-> b, npts |-> n, freq |-> f, units |-> "MHz",
      center |-> c, span |-> s, single |-> g] :
        a \in Opt(R(1)), b \in Opt(R(3)), n \in Opt(R(2)),
        f \in Opt(<<R(1), R(2), R(3)>>), c \in Opt(R(3)), s \in Opt(R(2)),
        g \in Opt(R(2))}

\* the sweeps a horn is built on and the sweeps compared with them: by
\* centre, span and count, by a single frequency, by an array
SweepArgs ==
    {[NoArgs EXCEPT !.center = R(2), !.span = R(2), !.npts = R(n)] :
        n \in 1..MaxFreqPts}
    \cup {[NoArgs EXCEPT !.single = R(2)],
          [NoArgs EXCEPT !.freq = <<R(1), R(3)>>]}

\* the values assigned to f: None, and the arrays 1, 3, 5, ... of
\* 1 .. MaxFreqPts samples
AssignValues ==
    {None} \cup {[i \in 1..n |-> R(2 * i - 1)] : n \in 1..MaxFreqPts}

\* freq2 and freq1 of test_frequency: one sweep by centre, span and count
\* and one by start, stop and count, and freq1 == freq2
SweepTwoWays(center, span, npts) ==
    /\ ret = NoCall
    /\ freqs["freq1"] = NoObject
    /\ LET by_span == Frequency([NoArgs EXCEPT !.center = center,
                                               !.span = span,
                                               !.npts = R(npts)])
           by_ends == Frequency([NoArgs EXCEPT
                                   !.start = RSub(center, RDiv(span, R(2))),
                                   !.stop = RAdd(center, RDiv(span, R(2))),
                                   !.npts = R(npts)])
       IN  ret' = [op |-> "modes", center |-> center, span |-> span,
                   npts |-> npts, by_span |-> by_span, by_ends |-> by_ends,
                   eq |-> FrequencyEq(by_ends, by_span)]
    /\ UNCHANGED <<idx_center, freqs, horns, component_list, system>>

\* Frequency(...) on any choice of arguments
FrequencyCall(a) ==
    /\ ret = NoCall
    /\ freqs["freq1"] = NoObject
    /\ ret' = [op |-> "call", args |-> a, out |-> Frequency(a)]
    /\ UNCHANGED <<idx_center, freqs, horns, component_list, system>>

\* freq.f = value, on a sweep a horn was built on
AssignF(id, value) ==
    /\ ret = NoCall
    /\ freqs[id] # NoObject
    /\ horns["horn_tx"] # NoObject
    /\ freqs' = [freqs EXCEPT ![id] = SetF(freqs[id], value)]
    /\ UNCHANGED <<idx_center, horns, component_list, system, ret>>

\* freq1 == freq2
FrequencyEquals ==
    /\ ret = NoCall
    /\ freqs["freq1"] # NoObject
    /\ freqs["freq2"] # NoObject
    /\ ret' = [op |-> "freq_eq",
               out |-> FrequencyEq(freqs["freq1"], freqs["freq2"])]
    /\ UNCHANGED <<idx_center, freqs, horns, component_list, system>>

\* freq.idx(freq, units); on a sweep whose f is None the subtraction
\* freq * mult - None raises TypeError
Idx(id, freq, units) ==
    /\ ret = NoCall
    /\ freqs[id] # NoObject
    /\ horns["horn_tx"] # NoObject
    /\ set_f_units(units) # KeyError
    /\ ret' = [op |-> "idx", id |-> id, freq |-> freq, units |-> units,
               raised |-> freqs[id].f = None,
               out |-> IF freqs[id].f = None THEN -1
                       ELSE FrequencyIdx(freqs[id], freq, units)]
    /\ UNCHANGED <<idx_center, freqs, horns, component_list, system>>

InitFreq == Init

NextFreq ==
    \/ \E c \in {R(2), R(3)}, s \in {R(0), R(2)}, n \in 1..MaxFreqPts :
          SweepTwoWays(c, s, n)
    \/ \E a \in ModeArgs : FrequencyCall(a)
    \/ \E a \in SweepArgs : NewFrequency("freq1", a)
    \/ \E a \in SweepArgs : NewFrequency("freq2", a)
    \/ NewHorn("horn_tx", "freq1",
               [slen |-> R(1), arad |-> R(1), hf |-> R(1), units |-> "m"])
    \/ CopyHorn
    \/ \E v \in AssignValues : AssignF("freq1", v)
    \/ FrequencyEquals
    \/ \E f \in {R(1), R(2), R(4)}, u \in {"MHz", "GHz", "kHz"} :
          Idx("freq1", f, u)
    \/ Discard

SpecFreq == InitFreq /\ [][NextFreq]_vars

-----------------------------------------------------------------------------
(* The waist along a system: a sweep, a horn, a list of elements a         *)
(* centimetre long, the System, and calls of waist().                      *)

\* the elements of the list: propagations of 1 cm, in air and in a
\* dielectric of index 2, and a mirror of focal length 0.5 m
WaistElements ==
    {Freespace(R(1), "cm", None), Dielectric(R(1), R(2), "cm", None),
     Mirror(R(5), "dm", None)}

\* the sweeps: 1 .. MaxPts samples at 1 MHz, and the samples 1 and 2 MHz
WaistFreqArgs ==
    {[NoArgs EXCEPT !.start = R(1), !.stop = R(1), !.npts = R(n)] :
        n \in 1..MaxPts}
    \cup {[NoArgs EXCEPT !.freq = <<R(1), R(2)>>]}

\* the transmitting horn
WaistHornArgs == {[slen |-> R(1), arad |-> R(1), hf |-> R(1), units |-> "m"]}

\* the frequency argument of waist(): None, or 0.001 GHz
WaistFreqs == {None, Rat(1, 1000)}

\* system.waist(freq); sys is the matrix the loop has accumulated when it
\* ends
Waist(freq) ==
    /\ ret = NoCall
    /\ system.cls = "System"
    /\ ret' = [op |-> "waist", freq |-> freq,
               idx |-> IF freq = None
                       THEN freqs[system.freq].idx_center[1]
                       ELSE FrequencyIdx(freqs[system.freq], freq, "GHz"),
               distance |-> SystemWaist(system, freq).distance,
               waist |-> SystemWaist(system, freq).waist,
               sys |-> WaistWalkMatrix(system.comp_list,
                                       Len(system.comp_list))]
    /\ UNCHANGED <<idx_center, freqs, horns, component_list, system>>

InitWaist == Init

NextWaist ==
    \/ \E a \in WaistFreqArgs : NewFrequency("freq1", a)
    \/ \E a \in WaistHornArgs : NewHorn("horn_tx", "freq1", a)
    \/ \E c \in WaistElements : AddElement(c)
    \/ NewSystemDefault
    \/ \E freq \in WaistFreqs : Waist(freq)
    \/ Discard

SpecWaist == InitWaist /\ [][NextWaist]_vars

-----------------------------------------------------------------------------
(* The calls on a system: a sweep, a horn and perhaps a copy of it, a     *)
(* list of elements, the System with or without a receiving horn, and     *)
(* calls of coupling(), best_coupling(), best_coupling_frequency() and    *)
(* waist(); the caller may assign the frequencies of the sweep a horn     *)
(* refers to.  The caller copies the horn before the System is built, so  *)
(* that "copy" names one copy only.                                       *)

\* the elements of the list: propagations of 1 cm, in air and in a
\* dielectric of index 2, and a window
CallElements ==
    {Freespace(R(1), "cm", None), Dielectric(R(1), R(2), "cm", None),
     Window("m", None)}

\* the arrays assigned to f: constant, as long as the sweep was
SameLengthValues(self) ==
    {[i \in 1..Len(self.f) |-> R(v)] : v \in FreqVals}

\* system.coupling() once more, next to the array the call before it
\* returned
CouplingAgain ==
    /\ ret.op = "coupling"
    /\ system.cls = "System"
    /\ ret' = [op |-> "coupling_again", prev |-> ret.out,
               out |-> SystemCoupling(system)]
    /\ UNCHANGED <<idx_center, freqs, horns, component_list, system>>

InitCalls == Init

NextCalls ==
    \/ \E a \in WaistFreqArgs : NewFrequency("freq1", a)
    \/ \E a \in WaistHornArgs : NewHorn("horn_tx", "freq1", a)
    \/ system = NoObject /\ CopyHorn
    \/ \E c \in CallElements : AddElement(c)
    \/ NewSystem
    \/ NewSystemDefault
    \/ Coupling
    \/ CouplingAgain
    \/ BestCoupling
    \/ BestCouplingFrequency
    \/ \E freq \in WaistFreqs : Waist(freq)
    \/ \E id \in {"freq1", "copy"} :
          /\ freqs[id] # NoObject
          /\ \E v \in SameLengthValues(freqs[id]) : AssignF(id, v)
    \/ Discard

SpecCalls == InitCalls /\ [][NextCalls]_vars

-----------------------------------------------------------------------------
(* Claims on the component algebra, under SpecAlg.                         *)

\* C2: A * B is a new component whose matrix is matrix(B) x matrix(A),
\* entry by entry: A, nearer the source, is applied first and B second.
C2_MulIsNextTimesSelf ==
    ret.op = "mul" =>
        LET A == ret.self.matrix
            B == ret.next_comp.matrix
            M == ret.out.matrix
        IN  /\ ret.out.cls = "Component"
            /\ M[1][1] = RAdd(RMul(B[1][1], A[1][1]), RMul(B[1][2], A[2][1]))
            /\ M[1][2] = RAdd(RMul(B[1][1], A[1][2]), RMul(B[1][2], A[2][2]))
            /\ M[2][1] = RAdd(RMul(B[2][1], A[1][1]), RMul(B[2][2], A[2][1]))
            /\ M[2][2] = RAdd(RMul(B[2][1], A[1][2]), RMul(B[2][2], A[2][2]))

\* a cascade of a propagation and a mirror, whose matrices do not commute
C2_Witness ==
    /\ ret.op = "mul"
    /\ ret.self.cls = "Freespace"
    /\ ret.next_comp.cls = "Mirror"
    /\ ret.out.matrix[1][1] = One
    /\ ret.out.matrix[2][2] # One

\* C8: composition is associative: the matrix of (A * B) * C equals the
\* matrix of A * (B * C).
C8_MulAssociative ==
    ret.op = "group" => ret.left.matrix = ret.right.matrix

\* three operands of three classes, no two of which commute
C8_Witness ==
    /\ ret.op = "group"
    /\ ret.a.cls = "Freespace"
    /\ ret.b.cls = "Mirror"
    /\ ret.c.cls = "Dielectric"
    /\ ret.c.n = R(2)
    /\ ret.left.matrix[1][1] # One

\* C9: the determinant A*D - B*C of the matrix of every element built by a
\* constructor is 1.
C9_Unimodular ==
    (ret.op = "new" /\ ret.out.cls # "ValueError") =>
        LET m == ret.out.matrix
        IN  RSub(RMul(m[1][1], m[2][2]), RMul(m[1][2], m[2][1])) = One

\* a focusing element and a slab built in a unit other than the metre
C9_Witness ==
    /\ ret.op = "new"
    /\ ret.out.cls \in {"EllipsoidalMirror", "SphericalMirror", "Dielectric"}
    /\ ret.out.units = "mm"
    /\ ret.out.matrix # Identity

\* C10: Mirror(f), ThinLens(f), SphericalMirror(2f) and
\* EllipsoidalMirror(2f, 2f) built with the same units all have the matrix
\* [[1, 0], [-1 / f_in_meters, 1]].
C10_FocusingElementsAgree ==
    ret.op = "focusing" =>
        LET m == Mat(One, Zero,
                     RNeg(RInv(RMul(ret.f, set_d_units(ret.units)))), One)
        IN  /\ ret.comp1.matrix = m
            /\ ret.comp2.matrix = m
            /\ ret.comp3.matrix = m
            /\ ret.comp4.matrix = m

-----------------------------------------------------------------------------
(* Claims on the system, under Spec.                                       *)

\* C1: the matrix of a System built on the list [E1, ..., En] is
\* matrix(En) x ... x matrix(E2) x matrix(E1), each element multiplied on
\* the left of the ones the beam meets before it.
C1_MatrixInPropagationOrder ==
    system.cls = "System" =>
        system.matrix = WaistWalkMatrix(component_list, Len(component_list))

\* C3: in a built System, at every sample, qout is the transform of the
\* transmitting horn's q through the system matrix, wout is the waist of
\* qout at the wavelength of the sample, and rout is the radius of
\* curvature of qout.
C3_OutputBeamFromQout ==
    system.cls = "System" =>
        LET tx == horns[system.horn_tx]
            w  == freqs[system.freq].w
        IN  \A i \in 1..Len(w) :
                /\ system.qout[i] = transform_beam(system.matrix, tx.q[i])
                /\ system.wout[i] = _waist_from_q(system.qout[i], w[i])
                /\ system.rout[i] = _radius_from_q(system.qout[i])

\* C4: building a System on horns whose sweeps differ in the number of
\* samples or in a sample fails before the matrix or any other field is
\* computed, and in every built System the two sweeps have the same
\* number of samples and the same samples.
C4_MismatchedSweepsFail ==
    system # NoObject =>
        LET rx  == IF horns["copy"] # NoObject THEN "copy" ELSE "horn_rx"
            ftx == freqs[horns["horn_tx"].freq].f
            frx == freqs[horns[rx].freq].f
            differ == \/ Len(ftx) # Len(frx)
                      \/ \E i \in 1..Len(ftx) : ftx[i] # frx[i]
        IN  /\ differ => system = Raised("AssertionError")
            /\ system.cls = "System" => ~differ

\* two horns on two sweeps of the same length that differ in a sample
C4_Witness ==
    /\ system = Raised("AssertionError")
    /\ horns["horn_tx"].freq # horns["horn_rx"].freq
    /\ Len(freqs["freq1"].f) = Len(freqs["freq2"].f)
    /\ Len(component_list) > 0

\* C5: every value coupling() returns lies in 0 .. 1, and a value is 1 only
\* if the waist of the beam at the receiving horn's waist plane equals the
\* horn's waist and the curvature of its wavefront there is 0.
C5_CouplingBounds ==
    ret.op = "coupling" =>
        LET rx == horns[system.horn_rx]
            w  == freqs[system.freq].w
        IN  \A i \in 1..Len(ret.out) :
                LET q == transform_beam(_freespace_matrix(rx.z[i]),
                                        system.qout[i])
                IN  /\ RLe(Zero, ret.out[i])
                    /\ RLe(ret.out[i], One)
                    /\ ret.out[i] = One =>
                          /\ _waist_from_q(q, w[i]) = rx.w[i]
                          /\ Re(CInv(q)) = Zero

\* a transmitting and a receiving horn built apart, and a system that
\* couples them perfectly at a sample
C5_Witness ==
    /\ ret.op = "coupling"
    /\ system.horn_rx = "horn_rx"
    /\ \E i \in 1..Len(ret.out) : ret.out[i] = One

\* C7: best_coupling() returns the greatest value of coupling();
\* best_coupling_frequency() returns the sample of the sweep at the lowest
\* index of that value, and the coupling at idx of that frequency is
\* best_coupling().
C7_BestCoupling ==
    LET c == SystemCoupling(system)
        f == freqs[system.freq]
        IsMax(v) == /\ \E i \in 1..Len(c) : c[i] = v
                    /\ \A i \in 1..Len(c) : RLe(c[i], v)
    IN  /\ ret.op = "best_coupling" => IsMax(ret.out)
        /\ ret.op = "best_coupling_frequency" =>
              /\ IsMax(c[ret.idx_best + 1])
              /\ \A j \in 1..ret.idx_best : c[j] # c[ret.idx_best + 1]
              /\ ret.out = f.f[ret.idx_best + 1]
              /\ IsMax(c[FrequencyIdx(f, ret.out, "MHz") + 1])

\* a sweep of two frequencies on which the greatest coupling is reached
\* at both samples
C7_Witness ==
    /\ ret.op = "best_coupling_frequency"
    /\ ret.idx_best = 0
    /\ freqs[system.freq].f[1] # freqs[system.freq].f[2]
    /\ SystemCoupling(system)[2] = SystemCoupling(system)[1]

-----------------------------------------------------------------------------
(* Claims on the Gaussian telescope, under SpecTel.                        *)

\* C6: in the Gaussian telescope the coupling at the sample of the centre
\* frequency is 1 and the coupling at every other sample of the sweep is
\* less than 1.
C6_TelescopeCoupling ==
    ret.op = "coupling" =>
        \A i \in 1..Len(ret.out) :
            IF i = idx_center[1] + 1
            THEN ret.out[i] = One
            ELSE RLt(ret.out[i], One)

\* a sweep of three samples with the centre in the middle
C6_Witness ==
    /\ ret.op = "coupling"
    /\ Len(ret.out) = 3
    /\ idx_center = R(1)
    /\ Len(system.comp_list) = 6

-----------------------------------------------------------------------------
(* Further claims on the component algebra, under SpecAlg.                 *)

\* C11: the matrix of Dielectric(d, n) has the entry [0][1] of the matrix
\* of Freespace(d) times n and its three other entries; for n = 1 the two
\* matrices are equal entry by entry.
C11_DielectricIsScaledAir ==
    ret.op = "dielectric" =>
        LET D == ret.diel.matrix
            A == ret.air.matrix
        IN  /\ D[1][2] = RMul(A[1][2], ret.n)
            /\ D[1][1] = A[1][1]
            /\ D[2][1] = A[2][1]
            /\ D[2][2] = A[2][2]
            /\ ret.n = One => D = A

\* a slab of index 2 in millimetres
C11_Witness ==
    /\ ret.op = "dielectric"
    /\ ret.n = R(2)
    /\ ret.units = "mm"
    /\ ret.diel.matrix[1][2] # ret.air.matrix[1][2]

\* C12: x == y on two components is decided by their matrices: true when
\* the matrices are equal, the instances being distinct or not, and false
\* when the matrices differ.
C12_EqualityByMatrix ==
    ret.op = "eq" => (ret.out <=> ret.self.matrix = ret.other.matrix)

\* C13: an element built on lengths v in a recognized unit u has the
\* matrix and the stored aperture radius of the element of the same class
\* built on v * multiplier(u) with units 'm'.
C13_LengthsConverted ==
    ret.op = "units" =>
        /\ ret.given.matrix = ret.metres.matrix
        /\ ret.given.radius = ret.metres.radius

\* C14: the length d of A * B is the sum of the lengths of A and B, an
\* element that does not propagate the beam counting for 0.
C14_LengthOfCascade ==
    ret.op = "mul" => ret.out.d = RAdd(ret.self.d, ret.next_comp.d)

-----------------------------------------------------------------------------
(* Claims on the units, under SpecUnits.                                   *)

\* C15: set_d_units and set_f_units return the scale factor of each
\* recognized unit name whatever its case (in the model's units, metres
\* and megahertz) and raise an error for every other name; an element, a
\* Horn or a Frequency built with an unrecognized unit fails.
C15_UnitsOrError ==
    LET d_units == [um |-> Rat(1, 1000000), mm |-> Rat(1, 1000),
                    cm |-> Rat(1, 100), dm |-> Rat(1, 10), m |-> R(1),
                    km |-> R(1000)]
        f_units == [hz |-> Rat(1, 1000000), khz |-> Rat(1, 1000),
                    mhz |-> R(1), ghz |-> R(1000), thz |-> R(1000000)]
        IsD(u) == Lower(u) \in DOMAIN d_units
        IsF(u) == Lower(u) \in DOMAIN f_units
    IN  /\ ret.op = "set_d_units" =>
              IF IsD(ret.units)
              THEN ~ret.raised /\ ret.out = d_units[Lower(ret.units)]
              ELSE ret.raised /\ ret.out = None
        /\ ret.op = "set_f_units" =>
              IF IsF(ret.units)
              THEN ~ret.raised /\ ret.out = f_units[Lower(ret.units)]
              ELSE ret.raised /\ ret.out = None
        /\ (ret.op = "element" /\ ~IsD(ret.units)) =>
              ret.out = Raised("ValueError")
        /\ \A id \in HornIds :
              horns[id] # NoObject =>
                 IsD(horns[id].units) /\ horns[id].mult = d_units[Lower(horns[id].units)]
        /\ \A id \in FreqIds :
              freqs[id] # NoObject =>
                 IsF(freqs[id].units)
                 /\ freqs[id].unit_mult = f_units[Lower(freqs[id].units)]

\* a sweep built in gigahertz, a horn built on it in decimetres, and a
\* second sweep refused for its unit
C15_Witness ==
    /\ freqs["freq1"].cls = "Frequency"
    /\ freqs["freq1"].units = "GHz"
    /\ horns["horn_tx"].cls = "Horn"
    /\ horns["horn_tx"].units = "dm"
    /\ ret = [op |-> "Frequency", out |-> Raised("ValueError")]

-----------------------------------------------------------------------------
(* Claims on the sweep, under SpecFreq.                                    *)

\* C16: a Frequency built from (center, span, count) has the samples of
\* one built from (center - span/2, center + span/2, count), and the two
\* compare equal; the samples are count in number, evenly spaced from
\* center - span/2, and end at center + span/2 when count is 2 or more
\* (a count of 1 gives the one sample center - span/2); two sweeps of any
\* two modes compare equal exactly when their samples are the same.
C16_SweepModesAgree ==
    /\ ret.op = "modes" =>
          LET f     == ret.by_span.f
              n     == ret.npts
              start == RSub(ret.center, RDiv(ret.span, R(2)))
              stop  == RAdd(ret.center, RDiv(ret.span, R(2)))
          IN  /\ ret.by_ends.f = f
              /\ ret.eq
              /\ Len(f) = n
              /\ f[1] = start
              /\ n >= 2 => f[n] = stop
              /\ \A i \in 1..(n - 1) :
                    RSub(f[i + 1], f[i]) = RDiv(ret.span, R(n - 1))
    /\ ret.op = "freq_eq" =>
          (ret.out <=>
             /\ Len(freqs["freq1"].f) = Len(freqs["freq2"].f)
             /\ \A i \in 1..Len(freqs["freq1"].f) :
                   freqs["freq1"].f[i] = freqs["freq2"].f[i])

\* C16 as stated: the samples include both ends, whatever the count.
C16_BothEndsIncluded ==
    ret.op = "modes" =>
        /\ ret.by_ends.f = ret.by_span.f
        /\ ret.eq
        /\ ret.by_span.f[1] = RSub(ret.center, RDiv(ret.span, R(2)))
        /\ ret.by_span.f[Len(ret.by_span.f)] =
              RAdd(ret.center, RDiv(ret.span, R(2)))

\* a sweep of three samples over a span of 2
C16_Witness ==
    /\ ret.op = "modes"
    /\ ret.npts = 3
    /\ ret.span = R(2)
    /\ ret.by_span.f = <<R(1), R(2), R(3)>>

\* C17: a call of Frequency in which none of start+stop+count,
\* center+span+count, single and an array is fully given raises
\* ValueError.
C17_NoModeIsAnError ==
    ret.op = "call" =>
        LET a == ret.args
            resolvable ==
                \/ a.start # None /\ a.stop # None /\ a.npts # None
                \/ a.center # None /\ a.span # None /\ a.npts # None
                \/ a.single # None
                \/ a.freq # None
        IN  ~resolvable => ret.out = Raised("ValueError")

\* the call of test_frequency: a start and a center and nothing else
C17_Witness ==
    /\ ret.op = "call"
    /\ ret.args = [NoArgs EXCEPT !.start = R(1), !.center = R(3)]
    /\ ret.out = Raised("ValueError")

\* C18: every Frequency object, after construction and after every
\* assignment to f, has w[i] = c / f[i] for every i, w as long as f and
\* idx_center = len(f) // 2 when f is an array, and has w and idx_center
\* both None when f was assigned None; an assignment changes the three
\* in one step.
C18_WavelengthFollowsF ==
    \A id \in DOMAIN freqs :
        freqs[id] # NoObject =>
            IF freqs[id].f = None
            THEN /\ freqs[id].w = None
                 /\ freqs[id].idx_center = None
            ELSE /\ Len(freqs[id].w) = Len(freqs[id].f)
                 /\ \A i \in 1..Len(freqs[id].f) :
                       freqs[id].w[i] = RInv(freqs[id].f[i])
                 /\ freqs[id].idx_center = R(Len(freqs[id].f) \div 2)

\* C18 as stated: in every state w is as long as f, w[i] = c / f[i] and
\* idx_center is len(f) // 2.
C18_AlwaysAnArray ==
    \A id \in DOMAIN freqs :
        freqs[id] # NoObject =>
            /\ Len(freqs[id].w) = Len(freqs[id].f)
            /\ \A i \in 1..Len(freqs[id].f) :
                  freqs[id].w[i] = RInv(freqs[id].f[i])
            /\ freqs[id].idx_center = R(Len(freqs[id].f) \div 2)

\* freq1 was built with one sample, a horn was built on it, and it was
\* then assigned an array of three
C18_Witness ==
    /\ horns["horn_tx"] # NoObject
    /\ Len(horns["horn_tx"].q) = 1
    /\ freqs["freq1"].f = <<R(1), R(3), R(5)>>
    /\ freqs["freq1"].w = <<R(1), Rat(1, 3), Rat(1, 5)>>
    /\ freqs["freq1"].idx_center = R(1)

\* C19: idx(freq, units) returns the 0-based index of a sample at the
\* least absolute distance from freq taken in units, the lowest index
\* among the samples at that distance; a freq that is a sample gives the
\* index of a sample of that value.
C19_IdxIsNearest ==
    ret.op = "idx" /\ ~ret.raised =>
        LET f       == freqs[ret.id].f
            target  == RMul(ret.freq, set_f_units(ret.units))
            dist(i) == RAbs(RSub(target, f[i]))
            k       == ret.out + 1
        IN  /\ k \in 1..Len(f)
            /\ \A j \in 1..Len(f) : RLe(dist(k), dist(j))
            /\ \A j \in 1..(k - 1) : RLt(dist(k), dist(j))
            /\ (\E j \in 1..Len(f) : f[j] = target) => f[k] = target

\* 2 MHz on the sweep 1, 3, 5 MHz is as near to the first sample as to
\* the second
C19_Witness ==
    /\ ret.op = "idx"
    /\ ret.freq = R(2)
    /\ ret.units = "MHz"
    /\ freqs[ret.id].f = <<R(1), R(3), R(5)>>
    /\ ret.out = 0

\* C20: the arrays q, w and z of every Horn are as long as the sweep the
\* horn refers to, after construction, after copy and after every
\* assignment to that sweep's f.
C20_HornArraysFollowSweep ==
    \A id \in DOMAIN horns :
        horns[id] # NoObject =>
            /\ Len(horns[id].q) = Len(freqs[horns[id].freq].f)
            /\ Len(horns[id].w) = Len(freqs[horns[id].freq].f)
            /\ Len(horns[id].z) = Len(freqs[horns[id].freq].f)

\* C26: a call of Frequency that gives more than one of single,
\* center+span+count, start+stop+count and an array in full raises no
\* error and uses one of them: single before center and span, center and
\* span before start and stop, start+stop+count before the array.  The
\* array is used only when start, stop and count are not all resolved:
\* center and span without a count give the array, or ValueError when
\* there is no array.
C26_ModePrecedence ==
    ret.op = "call" =>
        LET a == ret.args
            by_single == a.single # None
            by_span   == a.center # None /\ a.span # None /\ a.npts # None
            by_ends   == a.start # None /\ a.stop # None /\ a.npts # None
            by_array  == a.freq # None
            modes == Cardinality({m \in {"single", "span", "ends", "array"} :
                         \/ m = "single" /\ by_single
                         \/ m = "span" /\ by_span
                         \/ m = "ends" /\ by_ends
                         \/ m = "array" /\ by_array})
            Sweep(lo, hi, n) ==
                [i \in 1..n |->
                    IF n = 1 THEN lo
                    ELSE RAdd(lo, RDiv(RMul(R(i - 1), RSub(hi, lo)),
                                       R(n - 1)))]
            half == RDiv(a.span, R(2))
        IN  /\ modes >= 2 =>
                  /\ ret.out.cls = "Frequency"
                  /\ ret.out.f =
                        IF by_single THEN <<a.single>>
                        ELSE IF by_span
                        THEN Sweep(RSub(a.center, half), RAdd(a.center, half),
                                   a.npts[1])
                        ELSE IF by_ends /\ ~(a.center # None /\ a.span # None)
                        THEN Sweep(a.start, a.stop, a.npts[1])
                        ELSE a.freq
            /\ (ret.out.cls = "Frequency" /\ by_array /\ ret.out.f = a.freq) =>
                  /\ ~by_single
                  /\ ~by_span
                  /\ ~by_ends \/ (a.center # None /\ a.span # None)
            /\ (a.center # None /\ a.span # None /\ a.npts = None
                    /\ ~by_single) =>
                  IF by_array
                  THEN ret.out.cls = "Frequency" /\ ret.out.f = a.freq
                  ELSE ret.out = Raised("ValueError")

\* every argument given: the sweep is the single frequency
C26_Witness ==
    /\ ret.op = "call"
    /\ ret.args.single # None
    /\ ret.args.center # None /\ ret.args.span # None
    /\ ret.args.start # None /\ ret.args.stop # None
    /\ ret.args.npts # None
    /\ ret.args.freq # None
    /\ ret.out.cls = "Frequency"
    /\ ret.out.f = <<R(2)>>

-----------------------------------------------------------------------------
(* Claims on the calls on a system, under SpecCalls.                       *)

\* C21: the step that copies the transmitting horn, made by the caller or
\* by System built without a receiving horn, gives a new horn with the q,
\* w, z, slen, arad and hf of the original and a Frequency object of its
\* own with the samples of the original's, and leaves the original and
\* its sweep as they were; and a later step that changes the sweep of the
\* original or of the copy leaves the other horn and the other's sweep as
\* they were.
C21_CopyIsIndependent ==
    [][\A c \in {"horn_rx", "copy"} :
          /\ (horns[c] = NoObject /\ horns'[c] # NoObject) =>
                LET tx == horns["horn_tx"]
                    rx == horns'[c]
                IN  /\ rx.q = tx.q /\ rx.w = tx.w /\ rx.z = tx.z
                    /\ rx.slen = tx.slen /\ rx.arad = tx.arad
                    /\ rx.hf = tx.hf
                    /\ rx.freq # tx.freq
                    /\ freqs'[rx.freq] = freqs[tx.freq]
                    /\ horns'["horn_tx"] = tx
                    /\ freqs'[tx.freq] = freqs[tx.freq]
                    /\ (c = "copy" /\ system'.cls = "System") =>
                          system'.horn_rx = "copy"
          /\ horns[c] # NoObject =>
                LET tx == horns["horn_tx"]
                    rx == horns[c]
                IN  /\ freqs'[tx.freq] # freqs[tx.freq] =>
                          /\ horns'[c] = rx
                          /\ freqs'[rx.freq] = freqs[rx.freq]
                    /\ freqs'[rx.freq] # freqs[rx.freq] =>
                          /\ horns'["horn_tx"] = tx
                          /\ freqs'[tx.freq] = freqs[tx.freq]
      ]_vars

\* a System built without a receiving horn whose transmitting horn's
\* sweep was assigned afterwards: the copy has the arrays of the original
\* and the samples the sweep had
C21_Witness ==
    /\ system.cls = "System"
    /\ system.horn_rx = "copy"
    /\ horns["copy"].q = horns["horn_tx"].q
    /\ freqs["freq1"].f = <<R(2), R(2)>>
    /\ freqs["copy"].f = <<R(1), R(2)>>

\* C22: a call of coupling(), best_coupling(), best_coupling_frequency()
\* or waist() leaves the System (matrix, qout, wout, rout and the rest),
\* the horns, the sweeps and the element list as they were, and a call of
\* coupling() right after another returns the array the first returned.
C22_CallsChangeNothing ==
    /\ [](ret.op = "coupling_again" => ret.out = ret.prev)
    /\ [][(/\ system.cls = "System"
           /\ ret' # ret
           /\ ret'.op \in {"coupling", "coupling_again", "best_coupling",
                           "best_coupling_frequency", "waist"}) =>
              /\ system' = system
              /\ horns' = horns
              /\ freqs' = freqs
              /\ component_list' = component_list
        ]_vars

\* coupling() called twice on a system of two elements and two samples
C22_Witness ==
    /\ ret.op = "coupling_again"
    /\ Len(ret.out) = 2
    /\ ret.out[1] # ret.out[2]
    /\ Len(system.comp_list) = 2

\* C24: waist() returns as many distances as waists; a propagation of
\* length d, after components of total length L, gives the distances
\* L + s for the sub-steps s = 0, 1 mm, 2 mm, ... below d, in that order,
\* the components taken in list order; a component that is no propagation
\* gives none; the distances never decrease and none is above the total
\* length of the system.
C24_WaistDistances ==
    ret.op = "waist" =>
        LET list == system.comp_list
            Steps(k) ==
                IF list[k].type = "prop"
                THEN Cardinality({j \in 0..20 : RLt(Rat(j, 1000), list[k].d)})
                ELSE 0
            RECURSIVE Before(_), LengthBefore(_)
            Before(k) == IF k = 1 THEN 0 ELSE Before(k - 1) + Steps(k - 1)
            LengthBefore(k) ==
                IF k = 1 THEN Zero
                ELSE RAdd(LengthBefore(k - 1), list[k - 1].d)
            total == LengthBefore(Len(list) + 1)
        IN  /\ Len(ret.distance) = Len(ret.waist)
            /\ Len(ret.distance) = Before(Len(list) + 1)
            /\ \A k \in 1..Len(list) : \A j \in 1..Steps(k) :
                  ret.distance[Before(k) + j] =
                      RAdd(LengthBefore(k), Rat(j - 1, 1000))
            /\ \A i \in 1..(Len(ret.distance) - 1) :
                  RLe(ret.distance[i], ret.distance[i + 1])
            /\ \A i \in 1..Len(ret.distance) : RLe(ret.distance[i], total)

\* the waist along 1 cm of air and 1 cm of dielectric: ten samples from 0
\* and ten from 1 cm
C24_Witness ==
    /\ ret.op = "waist"
    /\ Len(system.comp_list) = 2
    /\ system.comp_list[1].cls = "Freespace"
    /\ system.comp_list[2].cls = "Dielectric"
    /\ Len(ret.distance) = 20
    /\ ret.distance[10] = Rat(9, 1000)
    /\ ret.distance[11] = Rat(1, 100)
    /\ ret.distance[20] = Rat(19, 1000)

\* C25: the sample of waist() at the sub-step s of a propagation is the
\* waist of the beam of the transmitting horn through the components
\* before it and then through the propagation cut at s: [[1, s], [0, 1]]
\* in air and [[1, s * n], [0, 1]] in a dielectric of index n.
C25_SampleThroughCutElement ==
    ret.op = "waist" =>
        LET list == system.comp_list
            Steps(k) ==
                IF list[k].type = "prop"
                THEN Cardinality({j \in 0..20 : RLt(Rat(j, 1000), list[k].d)})
                ELSE 0
            RECURSIVE Before(_)
            Before(k) == IF k = 1 THEN 0 ELSE Before(k - 1) + Steps(k - 1)
            Cut(k, s) ==
                IF list[k].cls = "Dielectric"
                THEN Mat(One, RMul(s, list[k].n), Zero, One)
                ELSE Mat(One, s, Zero, One)
        IN  \A k \in 1..Len(list) : \A j \in 1..Steps(k) :
                ret.waist[Before(k) + j] =
                    _waist_from_q(
                        transform_beam(
                            MatMul(Cut(k, Rat(j - 1, 1000)),
                                   WaistWalkMatrix(list, k - 1)),
                            horns[system.horn_tx].q[ret.idx + 1]),
                        freqs[system.freq].w[ret.idx + 1])

-----------------------------------------------------------------------------
(* Claims on the waist along a system, under SpecWaist.                    *)

\* C23: the matrix that waist() has accumulated when its loop ends, from
\* the identity by sys = np.dot(comp.matrix, sys) in list order, is the
\* matrix of the System.
C23_WalkedMatrixIsSystemMatrix ==
    ret.op = "waist" => ret.sys = system.matrix

====
